---- MODULE Spec2Model ----
(***************************************************************************)
(* Incremental decoding core of whisper_jax/modeling_flax_whisper.py:      *)
(* the decoder self-attention key/value cache and its masks                 *)
(* (FlaxWhisperAttention), the static forced-token logits processor         *)
(* (FlaxStaticForceTokensLogitsProcessor), the generation loop that drives  *)
(* them, and the generation configuration shared by generate and            *)
(* pipeline_generate.                                                       *)
(***************************************************************************)
EXTENDS Integers, Sequences, FiniteSets, TLC

(***************************************************************************)
(* Bounds of the model.                                                     *)
(***************************************************************************)
\* max_length of the cache: the last dimension of cached_key
MaxLen == 3
\* config.max_target_positions: the side of the square causal_mask (setup)
MaxTargetPositions == 4
\* batch_size
NumRows == 2
\* vocabulary size: the last dimension of the scores
VocabSize == 8
\* longest list of (index, token) pairs given to the forced-token processor
MaxPairs == 2
Rows == 0 .. (NumRows - 1)
Pos == 0 .. (MaxLen - 1)
TPos == 0 .. (MaxTargetPositions - 1)
\* hidden-state inputs: every row starts its block at 1, or one row starts at 2
BaseChoices == {[b \in Rows |-> 1]} \cup {[b \in Rows |-> IF b = r THEN 2 ELSE 1] : r \in Rows}

Min(a, b) == IF a < b THEN a ELSE b
Max(a, b) == IF a > b THEN a ELSE b

VARIABLES
    has_cache,      \* has_variable("cache", "cached_key")
    cached_key,     \* cached_key.value   [row][position], heads and head_dim abstracted
    cached_value,   \* cached_value.value [row][position]
    cache_index,    \* cache_index.value
    last,           \* the last attention call: its kind, its inputs and its outcome
    written,        \* per row, the hidden states written since the cache was created
    legal,          \* the writes so far were one prefill on the fresh cache, then single steps, within max_length
    force_token_map,    \* the list of (index, token) pairs the processor was built from
    force_token_array,  \* self.force_token_array
    fcall,              \* the last __call__ of the processor: cur_len, scores in, scores out
    gen,                \* a generation in flight: state, processors, sequences, finished flags
    generation_config,  \* self.generation_config, the configuration object the model keeps
    gcall,              \* the last generate / pipeline_generate call: arguments and what it passed on
    det,                \* two independent runs of the decoding loop on the same inputs
    pair,               \* two batches driven through the same cached calls, and the rows whose inputs agreed
    attn,               \* the last construction of an attention block: embed_dim, num_heads, outcome
    shaped,             \* a cache with its shape, and the shape and outcome of the last cached call on it
    dec                 \* the decoder stack of a generation call: the cache of every layer, the position ids, the last pass

cacheVars == <<has_cache, cached_key, cached_value, cache_index, last, written, legal>>
forceVars == <<force_token_map, force_token_array, fcall>>
genVars == <<gen>>
cfgVars == <<generation_config, gcall>>
detVars == <<det>>
pairVars == <<pair>>
setupVars == <<attn>>
decVars == <<dec>>
shapeVars == <<shaped>>
vars == <<cacheVars, forceVars, genVars, cfgVars, detVars, pairVars, setupVars, decVars, shapeVars>>

(***************************************************************************)
(* Projections.  key_states = k_proj(hidden_states) (no bias),              *)
(* value_states = v_proj(hidden_states) (with bias); the weights are fixed  *)
(* parameters of the module.                                                *)
(***************************************************************************)
KProj(h) == 2 * h
VProj(h) == 3 * h + 1

\* a block of n consecutive hidden states per row, row b starting at base[b]
HiddenBlock(base, n) == [b \in Rows |-> [i \in 0 .. (n - 1) |-> base[b] + i]]

(***************************************************************************)
(* Masks.                                                                   *)
(***************************************************************************)
\* make_causal_mask: entry (i, j) of the lower-triangular mask
MakeCausalMaskStrict(i, j) == j < i
MakeCausalMask(i, j) == j <= i

\* self.causal_mask, built once in setup over max_target_positions: entry (i, j)
causal_mask(i, j) == MakeCausalMask(i, j)

\* flax combine_masks: logical and of the masks
CombineMasksOr(a, b) == a \/ b
combine_masks(a, b) == a /\ b

\* lax.dynamic_slice clamps the start index so that the slice fits
DynamicSliceStart(start, size, dim) == Max(0, Min(start, dim - size))

\* entry (i, j) of lax.dynamic_slice(self.causal_mask, (0, 0, mask_shift, 0),
\* (1, 1, query_length, max_decoder_length))
CachedCausalSlice(mask_shift, query_length, i, j) ==
    causal_mask(DynamicSliceStart(mask_shift, query_length, MaxTargetPositions) + i,
                DynamicSliceStart(0, MaxLen, MaxTargetPositions) + j)

\* the slice sizes must fit the operand, otherwise dynamic_slice raises
CachedSliceFails(query_length) ==
    query_length > MaxTargetPositions \/ MaxLen > MaxTargetPositions

\* entry (i, j) of self.causal_mask[:, :, :query_length, :key_length]
UncachedCausalSlice(query_length, key_length, i, j) == causal_mask(i, j)

\* attention masks the callers pass: none (attention_mask is None) or, per row, 0/1 per key position
NoMask == [given |-> FALSE, m |-> <<>>]
AllValid(n) == [given |-> TRUE, m |-> [b \in Rows |-> [j \in 0 .. (n - 1) |-> 1]]]
OnePadded(n, r, p) ==
    [given |-> TRUE, m |-> [b \in Rows |-> [j \in 0 .. (n - 1) |-> IF b = r /\ j = p THEN 0 ELSE 1]]]
AttentionMasks(n) ==
    {NoMask, AllValid(n)} \cup {OnePadded(n, r, p) : r \in Rows, p \in 0 .. (n - 1)}
\* with a cache the mask spans max_length; the padded position tried is the first of a row
CachedAttentionMasks ==
    {NoMask, AllValid(MaxLen)} \cup {OnePadded(MaxLen, r, 0) : r \in Rows}

\* "combine masks if needed", the causal branch of __call__: entry (b, j) given the causal entry
CausalOnly(amask, causal, b, j) == causal
CausalCombined(amask, causal, b, j) ==
    IF ~amask.given THEN causal ELSE combine_masks(amask.m[b][j] > 0, causal)

\* the combined mask of an uncached causal call, [row][query][key]
UncachedMask(amask, q, k) ==
    [b \in Rows |-> [i \in 0 .. (Min(q, MaxTargetPositions) - 1) |->
        [j \in 0 .. (Min(k, MaxTargetPositions) - 1) |->
            CausalCombined(amask, UncachedCausalSlice(q, k, i, j), b, j)]]]

(***************************************************************************)
(* _concatenate_to_cache                                                    *)
(***************************************************************************)
\* jnp.eye(n, m): entry (i, j)
EyeShifted(n, m, i, j) == IF i < n /\ j < m /\ j = i + 1 THEN 1 ELSE 0
Eye(n, m, i, j) == IF i < n /\ j < m /\ j = i THEN 1 ELSE 0

\* jax.nn.one_hot(idx, m): entry j; all entries are zero when idx is out of range
OneHotNext(idx, m, j) == IF j < m /\ j = idx + 1 THEN 1 ELSE 0
OneHot(idx, m, j) == IF j < m /\ j = idx THEN 1 ELSE 0

\* column j of jnp.matmul(one_token_key, indices): the sum over the n new positions
RECURSIVE MatMulCol(_, _, _, _)
MatMulCol(new, j, n, k) ==
    IF k = 0 THEN 0 ELSE new[k - 1] * Eye(n, MaxLen, k - 1, j) + MatMulCol(new, j, n, k - 1)

\* the scatter by one-hot broadcast and addition, for one row of the cache
ScatterRow(cached, new, cur_index, n) ==
    IF n > 1
    THEN [j \in Pos |-> cached[j] + MatMulCol(new, j, n, n)]
    ELSE [j \in Pos |-> cached[j] + new[0] * OneHot(cur_index, MaxLen, j)]

\* pad_mask = arange(seq_length) < cur_index + num_updated_cache_vectors
PadMask(cur_index, n, j) == j < cur_index + n

\* the is_initialized branch: the new cached_key, cached_value and cache_index
NewCachedKeyOfNextRow(ckey, hidden, cindex, n) ==
    [b \in Rows |->
        ScatterRow(ckey[b], [i \in 0 .. (n - 1) |-> KProj(hidden[(b + 1) % NumRows][i])], cindex, n)]
NewCachedKey(ckey, hidden, cindex, n) ==
    [b \in Rows |-> ScatterRow(ckey[b], [i \in 0 .. (n - 1) |-> KProj(hidden[b][i])], cindex, n)]
NewCachedValue(cvalue, hidden, cindex, n) ==
    [b \in Rows |-> ScatterRow(cvalue[b], [i \in 0 .. (n - 1) |-> VProj(hidden[b][i])], cindex, n)]
NewCacheIndexTwice(cindex, n) == cindex + 2 * n
NewCacheIndex(cindex, n) == cindex + n

\* the mask a cached call attends with: combine_masks(pad_mask, attention_mask), [row][query][key]
CachedMask(amask, cindex, n) ==
    [b \in Rows |-> [i \in 0 .. (n - 1) |-> [j \in Pos |->
        combine_masks(PadMask(cindex, n, j),
                      CausalCombined(amask, CachedCausalSlice(cindex, n, i, j), b, j))]]]

ZeroCache == [b \in Rows |-> [j \in Pos |-> 0]]
NoWrites == [b \in Rows |-> <<>>]
NoCall == [kind |-> "none", n |-> 0, cur |-> 0, result |-> "ok", amask |-> NoMask]

(***************************************************************************)
(* Attention calls                                                          *)
(***************************************************************************)
\* state after construction: no cache collection exists
CacheInit ==
    /\ has_cache = FALSE
    /\ cached_key = ZeroCache
    /\ cached_value = ZeroCache
    /\ cache_index = 0
    /\ last = NoCall
    /\ written = NoWrites
    /\ legal = TRUE

\* init_cache: the decoder is run with init_cache=True and no cache collection;
\* _concatenate_to_cache creates zero keys/values of length max_length and index 0
InitCache ==
    /\ has_cache' = TRUE
    /\ cached_key' = ZeroCache
    /\ cached_value' = ZeroCache
    /\ cache_index' = 0
    /\ last' = [NoCall EXCEPT !.kind = "init", !.n = MaxLen]
    /\ written' = NoWrites
    /\ legal' = TRUE
    /\ UNCHANGED <<forceVars, genVars, cfgVars, detVars, pairVars, setupVars, decVars, shapeVars>>

\* causal self-attention with a cache: n new positions, caller's attention mask amask
CachedAttention(n, base, amask) ==
    /\ UNCHANGED <<forceVars, genVars, cfgVars, detVars, pairVars, setupVars, decVars, shapeVars>>
    /\ has_cache
    \* a cache that has been misused (a prefill after writes, a write beyond max_length) is not driven further
    /\ legal
    /\ LET hidden == HiddenBlock(base, n)
           kind == IF n = 1 THEN "step" ELSE "prefill"
       IN IF CachedSliceFails(n)
          THEN /\ last' = [kind |-> kind, n |-> n, cur |-> cache_index, result |-> "error",
                            amask |-> NoMask]
               /\ UNCHANGED <<has_cache, cached_key, cached_value, cache_index, written, legal>>
          ELSE    /\ cached_key' = NewCachedKey(cached_key, hidden, cache_index, n)
                  /\ cached_value' = NewCachedValue(cached_value, hidden, cache_index, n)
                  /\ cache_index' = NewCacheIndex(cache_index, n)
                  \* the call attends with CachedMask(amask, cache_index, n)
                  /\ last' = [kind |-> kind, n |-> n, cur |-> cache_index, result |-> "ok",
                               amask |-> amask]
                  /\ legal' = ((cache_index = 0 \/ n = 1) /\ cache_index + n <= MaxLen)
                  /\ written' = IF legal'
                                 THEN [b \in Rows |->
                                          written[b] \o [k \in 1 .. n |-> hidden[b][k - 1]]]
                                 ELSE NoWrites
                  /\ UNCHANGED has_cache

\* causal self-attention without a cache (and without init_cache), query length q and
\* key length k (recorded in last.n and last.cur): it attends with UncachedMask(amask, q, k)
UncachedAttention(q, k, amask) ==
    /\ ~has_cache
    /\ last' = [kind |-> "uncached", n |-> q, cur |-> k, result |-> "ok", amask |-> amask]
    /\ UNCHANGED <<has_cache, cached_key, cached_value, cache_index, written, legal>>
    /\ UNCHANGED <<forceVars, genVars, cfgVars, detVars, pairVars, setupVars, decVars, shapeVars>>

CachedCall ==
    \E n \in 1 .. (MaxTargetPositions + 1), base \in BaseChoices,
       amask \in CachedAttentionMasks :
        CachedAttention(n, base, amask)

UncachedCall ==
    \E q \in 1 .. MaxTargetPositions, k \in 1 .. MaxTargetPositions :
        \E amask \in AttentionMasks(k) :
            UncachedAttention(q, k, amask)

(***************************************************************************)
(* Non-causal attention: encoder self-attention and decoder cross-attention *)
(***************************************************************************)
\* length of the encoder hidden states
EncoderLen == 2

\* "if self.causal and (self.has_variable("cache", "cached_key") or init_cache)"
UsesCacheWhateverCausal(causal, has, init_cache) == has \/ init_cache
UsesCache(causal, has, init_cache) == causal /\ (has \/ init_cache)

\* the masks tried on the encoder positions: none, or the first position of one row padded
NonCausalMasks == {NoMask} \cup {OnePadded(EncoderLen, r, 0) : r \in Rows}

\* the mask of a non-causal call: expand_dims of the caller's mask, or None, which gives
\* no attention bias: entry (b, j), the same for every query position
NonCausalAllowed(amask, b, j) == IF amask.given THEN amask.m[b][j] > 0 ELSE TRUE

\* __call__ of a block constructed with causal = False, on q query and k key positions
NonCausalAttention(kind, init_cache, q, k, amask) ==
    /\ last' = [kind |-> kind, n |-> q, cur |-> k, result |-> "ok", amask |-> amask]
    /\ IF UsesCache(FALSE, has_cache, init_cache)
       THEN /\ has_cache' = TRUE
            /\ cached_key' = IF has_cache
                             THEN NewCachedKey(cached_key, HiddenBlock([b \in Rows |-> 1], q),
                                               cache_index, q)
                             ELSE ZeroCache
            /\ cached_value' = IF has_cache
                               THEN NewCachedValue(cached_value, HiddenBlock([b \in Rows |-> 1], q),
                                                   cache_index, q)
                               ELSE ZeroCache
            /\ cache_index' = IF has_cache THEN NewCacheIndex(cache_index, q) ELSE 0
       ELSE UNCHANGED <<has_cache, cached_key, cached_value, cache_index>>
    /\ UNCHANGED <<written, legal>>
    /\ UNCHANGED <<forceVars, genVars, cfgVars, detVars, pairVars, setupVars, decVars, shapeVars>>

\* FlaxWhisperEncoderLayer.__call__: self.self_attn(hidden_states, attention_mask)
EncoderSelfAttention(amask) ==
    NonCausalAttention("encoder_self", FALSE, EncoderLen, EncoderLen, amask)

\* FlaxWhisperDecoderLayer.__call__: self.encoder_attn(hidden_states, key_value_states,
\* attention_mask); the layer's init_cache is not passed on, so the block sees its default
CrossAttention(init_cache, q, amask) ==
    NonCausalAttention("cross", FALSE, q, EncoderLen, amask)

\* the decoding loop drives the cache: the prompt on the fresh cache, then single
\* positions, within max_length
LoopCachedCall ==
    \E n \in 1 .. MaxLen, base \in BaseChoices, amask \in CachedAttentionMasks :
        /\ (cache_index = 0 \/ n = 1)
        /\ cache_index + n <= MaxLen
        /\ CachedAttention(n, base, amask)

EncoderSelfCall == \E amask \in NonCausalMasks : EncoderSelfAttention(amask)

CrossCall ==
    \E init_cache \in BOOLEAN, q \in {1, MaxLen}, amask \in NonCausalMasks :
        CrossAttention(init_cache, q, amask)

AttnNext == InitCache \/ LoopCachedCall \/ UncachedCall \/ EncoderSelfCall \/ CrossCall

(***************************************************************************)
(* FlaxStaticForceTokensLogitsProcessor                                     *)
(***************************************************************************)
Vocab == 0 .. (VocabSize - 1)
\* length of force_token_array: jnp.ones(3)
ForceLen == 3
\* -float("inf")
NegInf == -1000

\* inputs: indices inside and outside the array, two token ids, lists of up to MaxPairs pairs
ForceIndexChoices == 0 .. (ForceLen + 1)
ForcedTokenChoices == {3, 7}
ForcePairs == ForceIndexChoices \X ForcedTokenChoices
ForceMaps == UNION {[1 .. n -> ForcePairs] : n \in 0 .. MaxPairs}
\* the steps tried: inside the array and beyond it
CurLenChoices == 0 .. (ForceLen + 2)

\* scores whose largest entry, in row b, is at token p + b
Peaked(p) == [b \in Rows |-> [v \in Vocab |-> IF v = (p + b) % VocabSize THEN 1 ELSE 0]]
ScoreInputs == {Peaked(0), Peaked(VocabSize - 1)}

\* force_token_array.at[index].set(token): a negative index counts from the end, an index
\* outside the array drops the update
AtSetKeepFirst(arr, index, token) ==
    IF 0 <= index /\ index < Len(arr) /\ arr[index + 1] = -1
    THEN [arr EXCEPT ![index + 1] = token] ELSE arr
AtSet(arr, index, token) ==
    LET n == Len(arr)
        i == IF index < 0 THEN index + n ELSE index
    IN IF 0 <= i /\ i < n THEN [arr EXCEPT ![i + 1] = token] ELSE arr

\* __init__: start from -1 everywhere, then set the pairs in list order
RECURSIVE BuildForceTokenArray(_, _)
BuildForceTokenArray(map, k) ==
    IF k = 0
    THEN [i \in 1 .. ForceLen |-> -1]
    ELSE AtSet(BuildForceTokenArray(map, k - 1), map[k][1], map[k][2])

\* self.force_token_array[i] with a traced index: out-of-range indices are clamped
ArrayGet(arr, i) == arr[Max(0, Min(i, Len(arr) - 1)) + 1]

\* a processor that keeps the other scores instead of starting from -inf
ForceTokenKeepsScores(arr, scores, generation_idx) ==
    [b \in Rows |-> [v \in Vocab |->
        IF v = DynamicSliceStart(ArrayGet(arr, generation_idx), 1, VocabSize) THEN 0 ELSE scores[b][v]]]
\* _force_token: -inf everywhere, then a (batch, 1) block of zeros written at column
\* current_token by lax.dynamic_update_slice, which clamps the start column
ForceToken(arr, scores, generation_idx) ==
    LET current_token == ArrayGet(arr, generation_idx)
        col == DynamicSliceStart(current_token, 1, VocabSize)
    IN [b \in Rows |-> [v \in Vocab |-> IF v = col THEN 0 ELSE NegInf]]

\* the outer lax.cond: cur_len >= self.force_token_array.shape[0]
ForceOutOfTableOffByOne(arr, cur_len) == cur_len > Len(arr)
ForceOutOfTable(arr, cur_len) == cur_len >= Len(arr)

\* __call__
ForceCallResult(arr, scores, cur_len) ==
    IF ForceOutOfTable(arr, cur_len)
    THEN scores
    ELSE IF ArrayGet(arr, cur_len) >= 0
         THEN ForceToken(arr, scores, cur_len)
         ELSE scores

NoFCall == [kind |-> "none", cur_len |-> 0, in |-> <<>>, out |-> <<>>]

ForceInit ==
    /\ force_token_map = <<>>
    /\ force_token_array = <<>>
    /\ fcall = NoFCall

\* FlaxStaticForceTokensLogitsProcessor(force_token_map)
ForceConstruct(map) ==
    /\ force_token_array = <<>>
    /\ force_token_map' = map
    /\ force_token_array' = BuildForceTokenArray(map, Len(map))
    /\ fcall' = NoFCall
    /\ UNCHANGED <<cacheVars, genVars, cfgVars, detVars, pairVars, setupVars, decVars, shapeVars>>

\* processor(input_ids, scores, cur_len)
ForceCall(scores, cur_len) ==
    /\ force_token_array # <<>>
    /\ fcall' = [kind |-> "call", cur_len |-> cur_len, in |-> scores,
                 out |-> ForceCallResult(force_token_array, scores, cur_len)]
    /\ UNCHANGED <<force_token_map, force_token_array>>
    /\ UNCHANGED <<cacheVars, genVars, cfgVars, detVars, pairVars, setupVars, decVars, shapeVars>>

ForceNext ==
    \/ \E map \in ForceMaps : ForceConstruct(map)
    \/ \E scores \in ScoreInputs, cur_len \in CurLenChoices : ForceCall(scores, cur_len)

(***************************************************************************)
(* Generation: pipeline_generate hands the static forced-token processor to *)
(* the greedy loop, which runs the decoder for one position at a time,      *)
(* applies the processors, takes the arg max and appends it.                *)
(***************************************************************************)
\* the generation configuration's tokens and length; max_length is the length of the cache
GenerationDefaults ==
    [decoder_start_token_id |-> 0, eos_token_id |-> 1, pad_token_id |-> 1, max_length |-> MaxLen]

\* forced_decoder_ids as the pipeline passes them: increasing indices after the start token
GenForceMaps ==
    {map \in ForceMaps :
        /\ \A k \in 1 .. Len(map) : map[k][1] >= 1
        /\ \A k \in 1 .. (Len(map) - 1) : map[k][1] < map[k + 1][1]}

\* the raw logits tried at a step: any token can be the arg max of a row
RawLogits == {Peaked(p) : p \in Vocab}

\* jnp.argmax: the first index of the largest score
ArgMax(row) ==
    CHOOSE v \in Vocab : \A w \in Vocab : row[w] < row[v] \/ (row[w] = row[v] /\ v <= w)

\* logits_processor(sequences, logits, cur_len): the list applied in order
RECURSIVE ApplyProcessors(_, _, _, _, _)
ApplyProcessors(procs, k, arr, scores, cur_len) ==
    IF k = 0
    THEN scores
    ELSE LET before == ApplyProcessors(procs, k - 1, arr, scores, cur_len)
         IN IF procs[k] = "static_force" THEN ForceCallResult(arr, before, cur_len) ELSE before

GenInit == gen = [state |-> "Idle"]

\* pipeline_generate(input_features, forced_decoder_ids) without prompt_ids and timestamps:
\* the processor list holds the static forced-token processor; the decoder input is the
\* start token in every row
PipelineGenerate(map) ==
    /\ gen.state = "Idle"
    /\ gen' = [state |-> "Prefill",
               forced_map |-> map,
               force_token_array |-> BuildForceTokenArray(map, Len(map)),
               logits_processor |-> <<"static_force">>,
               sequences |-> [b \in Rows |-> <<GenerationDefaults.decoder_start_token_id>>],
               is_sent_finished |-> [b \in Rows |-> FALSE],
               max_length |-> GenerationDefaults.max_length]
    /\ UNCHANGED <<cacheVars, forceVars, cfgVars, detVars, pairVars, setupVars, decVars, shapeVars>>

\* the loop condition's has_reached_max_length, on the length of the sequences
HasReachedMaxLengthLate(cur_len, max_length) == cur_len > max_length
HasReachedMaxLength(cur_len, max_length) == cur_len >= max_length

\* one step of the greedy loop on raw logits
GreedyStep(logits) ==
    /\ gen.state \in {"Prefill", "Decode"}
    /\ LET cur_len == Len(gen.sequences[0])
           scores == ApplyProcessors(gen.logits_processor, Len(gen.logits_processor),
                                     gen.force_token_array, logits, cur_len)
           next_token == [b \in Rows |->
                             IF gen.is_sent_finished[b]
                             THEN GenerationDefaults.pad_token_id
                             ELSE ArgMax(scores[b])]
           finished == [b \in Rows |->
                           gen.is_sent_finished[b] \/ next_token[b] = GenerationDefaults.eos_token_id]
       IN gen' = [gen EXCEPT
                    !.sequences = [b \in Rows |-> Append(gen.sequences[b], next_token[b])],
                    !.is_sent_finished = finished,
                    !.state = IF HasReachedMaxLength(cur_len + 1, gen.max_length)
                                 \/ (\A b \in Rows : finished[b])
                              THEN "Done" ELSE "Decode"]
    /\ UNCHANGED <<cacheVars, forceVars, cfgVars, detVars, pairVars, setupVars, decVars, shapeVars>>

\* the call returns its sequences; the model is ready for the next request
GenerateReturns ==
    /\ gen.state = "Done"
    /\ gen' = [state |-> "Idle"]
    /\ UNCHANGED <<cacheVars, forceVars, cfgVars, detVars, pairVars, setupVars, decVars, shapeVars>>

\* the loop runs the decoder on whatever logits the model produces
Decode == \E logits \in RawLogits : GreedyStep(logits)

GenNext ==
    \/ \E map \in GenForceMaps : PipelineGenerate(map)
    \/ Decode
    \/ GenerateReturns

(***************************************************************************)
(* generate and pipeline_generate: what they write into the generation      *)
(* configuration and what they hand to the generation loop.                 *)
(***************************************************************************)
\* the token tables of the generation configuration
LangToId == [en |-> 2]
TaskToId == [transcribe |-> 4, translate |-> 5]
NoTimestampsTokenId == [no_timestamps_token_id |-> 6]
\* None as a token id
NoneToken == [none |-> -1]

\* the configuration of a freshly loaded multilingual model: return_timestamps, task and
\* language are attributes that do not exist yet, forced_decoder_ids is None (<<>>)
FreshGenerationConfig ==
    [return_timestamps |-> "unset", task |-> "unset", language |-> "unset",
     is_multilingual |-> "true", forced_decoder_ids |-> <<>>]

\* arguments of generate; "none" is an argument left at None
GenerateArgs ==
    [return_timestamps : {"none", "true", "false"},
     task : {"none", "translate"},
     language : {"none", "en"},
     is_multilingual : {"none", "false"},
     logits_processor : {<<>>, <<"caller">>, <<"caller", "caller2">>}]

\* arguments of pipeline_generate
NoPrompt == [given |-> FALSE, ids |-> <<>>]
PromptChoices ==
    {NoPrompt} \cup {[given |-> TRUE, ids |-> ids] : ids \in {<<5>>, <<5, 6>>, <<5, 6, 7, 6, 7>>}}
PipelineArgs ==
    [forced_decoder_ids : {<<<<1, 7>>, <<2, 3>>>>, <<<<1, 3>>>>},
     prompt_ids : PromptChoices,
     return_timestamps : {TRUE, FALSE}]

\* generate, lines 1541-1551: the arguments that are given overwrite the configuration
ConfigAfterArgs(cfg, args) ==
    [cfg EXCEPT
        !.return_timestamps = IF args.return_timestamps # "none" THEN args.return_timestamps ELSE @,
        !.task = IF args.task # "none" THEN args.task ELSE @,
        !.is_multilingual = IF args.is_multilingual # "none" THEN args.is_multilingual ELSE @,
        !.language = IF args.language # "none" THEN args.language ELSE @]

\* generate, lines 1558-1569: the language and task tokens of a multilingual model
MultilingualForcedIds(cfg) ==
    IF cfg.is_multilingual = "true"
    THEN << <<1, IF cfg.language # "unset" THEN LangToId[cfg.language] ELSE NoneToken.none>>,
            <<2, IF cfg.task # "unset" THEN TaskToId[cfg.task] ELSE TaskToId.transcribe>> >>
    ELSE <<>>

\* generate, lines 1571-1573: whether the timestamp processor is used
WantsTimestamps(cfg, args) == cfg.return_timestamps = "true" \/ args.return_timestamps = "true"

\* generate, lines 1558-1580: the forced_decoder_ids list the call builds
GenerateForcedIds(cfg, args) ==
    LET ids == MultilingualForcedIds(cfg)
    IN IF WantsTimestamps(cfg, args)
       THEN ids
       ELSE IF ids # <<>> /\ ids[Len(ids)][1] # NoTimestampsTokenId.no_timestamps_token_id
            THEN Append(ids, <<ids[Len(ids)][1] + 1, NoTimestampsTokenId.no_timestamps_token_id>>)
            ELSE ids

\* generate, lines 1574-1590: the processor list handed to the generation loop
GenerateProcessors(cfg, args) ==
    IF WantsTimestamps(cfg, args) THEN <<"timestamp">> ELSE args.logits_processor

\* generate, lines 1582-1583: the configuration the call leaves behind
GenerateConfigAfter(cfg, args) ==
    LET c == ConfigAfterArgs(cfg, args)
        ids == GenerateForcedIds(c, args)
    IN IF Len(ids) > 0 THEN [c EXCEPT !.forced_decoder_ids = ids] ELSE c

\* seq[-k:] of Python: the last k elements, the whole list when it is shorter
LastElements(seq, k) == IF Len(seq) <= k THEN seq ELSE SubSeq(seq, Len(seq) - k + 1, Len(seq))

\* pipeline_generate, lines 1620-1623: text_prompt_ids[-self.config.max_length // 2 - 1 :]
TextPromptIds(prompt_ids) ==
    LET start == ((0 - GenerationDefaults.max_length) \div 2) - 1
    IN LastElements(Tail(prompt_ids), 0 - start)

\* pipeline_generate, lines 1641-1647: prompt text, start token, then the caller's tokens,
\* numbered from 1
PromptForcedIdsFromZero(prompt_ids, forced_decoder_ids) ==
    LET tokens == TextPromptIds(prompt_ids)
                    \o <<GenerationDefaults.decoder_start_token_id>>
                    \o [k \in 1 .. Len(forced_decoder_ids) |-> forced_decoder_ids[k][2]]
    IN [k \in 1 .. Len(tokens) |-> <<k - 1, tokens[k]>>]
PromptForcedIds(prompt_ids, forced_decoder_ids) ==
    LET tokens == TextPromptIds(prompt_ids)
                    \o <<GenerationDefaults.decoder_start_token_id>>
                    \o [k \in 1 .. Len(forced_decoder_ids) |-> forced_decoder_ids[k][2]]
    IN [k \in 1 .. Len(tokens) |-> <<k, tokens[k]>>]

\* pipeline_generate, lines 1620 and 1625: the decoder_start_token_id handed on in kwargs
\* (None without a prompt)
PromptStartToken(prompt) == IF prompt.given THEN Head(prompt.ids) ELSE NoneToken.none

\* pipeline_generate, lines 1605 and 1649: the configuration the call leaves behind
PipelineConfigAfter(cfg, args) ==
    [cfg EXCEPT !.forced_decoder_ids =
        IF args.prompt_ids.given
        THEN PromptForcedIds(args.prompt_ids.ids, args.forced_decoder_ids)
        ELSE <<>>]

\* pipeline_generate, lines 1607-1612: the processor list handed to the generation loop
PipelineProcessors(cfg, args) ==
    <<"static_force">> \o
        (IF cfg.return_timestamps # "unset" /\ args.return_timestamps THEN <<"timestamp">> ELSE <<>>)

\* pipeline_generate, line 1609: the table of the static forced-token processor, built from
\* the forced_decoder_ids the caller passed
StaticForceTokenArray(args) ==
    BuildForceTokenArray(args.forced_decoder_ids, Len(args.forced_decoder_ids))

NoGCall == [kind |-> "none"]

CfgInit ==
    /\ generation_config = FreshGenerationConfig
    /\ gcall = NoGCall

\* generate(input_features, logits_processor=..., return_timestamps=..., task=..., ...)
\* with generation_config=None: the model's own configuration object is written
Generate(args) ==
    /\ generation_config' = GenerateConfigAfter(generation_config, args)
    /\ gcall' = [kind |-> "generate", args |-> args,
                 forced_decoder_ids |-> generation_config'.forced_decoder_ids,
                 logits_processor |-> GenerateProcessors(ConfigAfterArgs(generation_config, args), args)]
    /\ UNCHANGED <<cacheVars, forceVars, genVars, detVars, pairVars, setupVars, decVars, shapeVars>>

\* pipeline_generate(input_features, forced_decoder_ids, prompt_ids, return_timestamps)
\* with generation_config=None
PipelineGenerateCall(args) ==
    /\ generation_config' = PipelineConfigAfter(generation_config, args)
    /\ gcall' = [kind |-> "pipeline_generate", args |-> args,
                 forced_decoder_ids |-> generation_config'.forced_decoder_ids,
                 logits_processor |-> PipelineProcessors(generation_config, args),
                 static_force_token_array |-> StaticForceTokenArray(args),
                 decoder_start_token_id |-> PromptStartToken(args.prompt_ids)]
    /\ UNCHANGED <<cacheVars, forceVars, genVars, detVars, pairVars, setupVars, decVars, shapeVars>>

CfgNext ==
    \/ \E args \in GenerateArgs : Generate(args)
    \/ \E args \in PipelineArgs : PipelineGenerateCall(args)

(***************************************************************************)
(* The decoder layers with LayerDrop, and two independent runs of the       *)
(* decoding loop on the same encoder output and forced-token table.         *)
(***************************************************************************)
\* config.decoder_layers
NumLayers == 2
\* config.decoder_layerdrop and the values random.uniform(0, 1) returns, in tenths
LayerDrop == 5
DrawChoices == {0, 9}
Draws == [1 .. NumLayers -> DrawChoices]
\* encoder hidden states, abstracted to a number
EncoderChoices == {0, 1}
\* None as a hidden state
NoneHidden == [none |-> -1]

\* decode: deterministic = not train
Deterministic(train) == ~train

\* "if not deterministic and (dropout_probability < self.layerdrop)"
LayerIsSkippedInAnyMode(deterministic, dropout_probability) == dropout_probability < LayerDrop
LayerIsSkipped(deterministic, dropout_probability) ==
    ~deterministic /\ dropout_probability < LayerDrop

\* input_embeds + position_embeds of a row: a fixed function of the tokens and their positions
RECURSIVE EmbedTokens(_)
EmbedTokens(input_ids) ==
    IF input_ids = <<>> THEN 0
    ELSE (EmbedTokens(Tail(input_ids)) + Head(input_ids) + Len(input_ids)) % VocabSize

\* decoder layer k: a fixed function of its input and of the encoder hidden states
DecoderLayer(k, hidden_states, enc) == (3 * hidden_states + enc + k) % VocabSize

\* FlaxWhisperDecoderLayerCollection.__call__, the first k layers: a skipped layer leaves
\* None as hidden state, which no later layer (nor the final layer norm) accepts
RECURSIVE DecoderLayers(_, _, _, _, _)
DecoderLayers(hidden_states, enc, draws, deterministic, k) ==
    IF k = 0
    THEN hidden_states
    ELSE LET before == DecoderLayers(hidden_states, enc, draws, deterministic, k - 1)
         IN IF before = NoneHidden.none \/ LayerIsSkipped(deterministic, draws[k])
            THEN NoneHidden.none
            ELSE DecoderLayer(k, before, enc)

\* decode: the last hidden state of every row, given the tokens so far
DecodeHidden(sequences, enc, draws, train) ==
    [b \in Rows |->
        DecoderLayers(EmbedTokens(sequences[b]), enc, draws, Deterministic(train), NumLayers)]

\* lm_head: logits whose largest entry is decided by the hidden state
LmLogits(hidden) == [b \in Rows |-> [v \in Vocab |-> IF v = hidden[b] THEN 1 ELSE 0]]

\* one run of the loop: state, sequences, finished flags
StartedRun ==
    [state |-> "Running",
     sequences |-> [b \in Rows |-> <<GenerationDefaults.decoder_start_token_id>>],
     is_sent_finished |-> [b \in Rows |-> FALSE]]

\* one step of a run: decode, apply the forced-token processor, take the arg max, append
RunStep(run, enc, arr, draws, train) ==
    IF run.state # "Running"
    THEN run
    ELSE LET hidden == DecodeHidden(run.sequences, enc, draws, train)
             cur_len == Len(run.sequences[0])
         IN IF \E b \in Rows : hidden[b] = NoneHidden.none
            THEN [run EXCEPT !.state = "Failed"]
            ELSE LET scores == ApplyProcessors(<<"static_force">>, 1, arr, LmLogits(hidden), cur_len)
                     next_token == [b \in Rows |->
                                       IF run.is_sent_finished[b]
                                       THEN GenerationDefaults.pad_token_id
                                       ELSE ArgMax(scores[b])]
                     finished == [b \in Rows |->
                                     run.is_sent_finished[b]
                                        \/ next_token[b] = GenerationDefaults.eos_token_id]
                 IN [state |-> IF HasReachedMaxLength(cur_len + 1, GenerationDefaults.max_length)
                                  \/ (\A b \in Rows : finished[b])
                               THEN "Done" ELSE "Running",
                     sequences |-> [b \in Rows |-> Append(run.sequences[b], next_token[b])],
                     is_sent_finished |-> finished]

\* the forced-token tables the two runs are tried with: empty, or one forced position
DetForceMaps == {map \in GenForceMaps : Len(map) <= 1}

DetInit == det = [state |-> "Idle"]

\* two runs are started on the same encoder output, forced-token table and mode
DetStart(enc, map, train) ==
    /\ det.state = "Idle"
    /\ det' = [state |-> "Running", enc |-> enc, forced_map |-> map, train |-> train,
               force_token_array |-> BuildForceTokenArray(map, Len(map)),
               runs |-> <<StartedRun, StartedRun>>]
    /\ UNCHANGED <<cacheVars, forceVars, genVars, cfgVars, pairVars, setupVars, decVars, shapeVars>>

\* both runs take their next step, each with its own LayerDrop draws
DetStep(draws1, draws2) ==
    /\ det.state = "Running"
    /\ \E r \in 1 .. 2 : det.runs[r].state = "Running"
    /\ det' = [det EXCEPT !.runs =
                  <<RunStep(det.runs[1], det.enc, det.force_token_array, draws1, det.train),
                    RunStep(det.runs[2], det.enc, det.force_token_array, draws2, det.train)>>]
    /\ UNCHANGED <<cacheVars, forceVars, genVars, cfgVars, pairVars, setupVars, decVars, shapeVars>>

\* both runs are over
DetReturn ==
    /\ det.state = "Running"
    /\ \A r \in 1 .. 2 : det.runs[r].state # "Running"
    /\ det' = [state |-> "Idle"]
    /\ UNCHANGED <<cacheVars, forceVars, genVars, cfgVars, pairVars, setupVars, decVars, shapeVars>>

DetNext ==
    \/ \E enc \in EncoderChoices, map \in DetForceMaps, train \in BOOLEAN : DetStart(enc, map, train)
    \/ \E draws1 \in Draws, draws2 \in Draws : DetStep(draws1, draws2)
    \/ DetReturn

(***************************************************************************)
(* FlaxWhisperAttention.setup: construction of an attention block           *)
(***************************************************************************)
\* the largest embed_dim and num_heads tried
MaxEmbedDim == 12
MaxNumHeads == 9

\* self.head_dim = self.embed_dim // self.num_heads
HeadDim(embed_dim, num_heads) == embed_dim \div num_heads

\* "if self.head_dim * self.num_heads != self.embed_dim: raise ValueError"
SetupRaisesWhenLarger(embed_dim, num_heads) == HeadDim(embed_dim, num_heads) * num_heads > embed_dim
SetupRaises(embed_dim, num_heads) == HeadDim(embed_dim, num_heads) * num_heads # embed_dim

SetupInit == attn = [kind |-> "none"]

\* the block is constructed: setup runs and raises, or leaves a block with its head_dim
Setup(embed_dim, num_heads) ==
    /\ attn' = [kind |-> "setup", embed_dim |-> embed_dim, num_heads |-> num_heads,
                head_dim |-> HeadDim(embed_dim, num_heads),
                result |-> IF SetupRaises(embed_dim, num_heads) THEN "error" ELSE "ok"]
    /\ UNCHANGED <<cacheVars, forceVars, genVars, cfgVars, detVars, pairVars, decVars, shapeVars>>

\* __call__ on a constructed block: heads are split with the head_dim of setup
SetupThenCall ==
    /\ attn.kind = "setup" /\ attn.result = "ok"
    /\ attn' = [attn EXCEPT !.kind = "called"]
    /\ UNCHANGED <<cacheVars, forceVars, genVars, cfgVars, detVars, pairVars, decVars, shapeVars>>

SetupNext ==
    \/ \E embed_dim \in 1 .. MaxEmbedDim, num_heads \in 1 .. MaxNumHeads : Setup(embed_dim, num_heads)
    \/ SetupThenCall

(***************************************************************************)
(* Two batches driven through the same cached attention calls: their        *)
(* inputs agree on one row and are free on the others.                      *)
(***************************************************************************)
\* the inputs of the other rows changed: their hidden states, their padding
OtherRowsShifted(base, r) == [b \in Rows |-> IF b = r THEN base[b] ELSE base[b] + 1]
OtherRowsPadded(amask, r) ==
    IF ~amask.given THEN amask
    ELSE [amask EXCEPT !.m = [b \in Rows |-> IF b = r THEN amask.m[b]
                                               ELSE [amask.m[b] EXCEPT ![0] = 1 - @]]]

\* hidden states and attention masks of two batches that agree on row r: the second batch
\* is the first one with the other rows' hidden states or padding changed, or not
PairInputs(r) ==
    {[base1 |-> base1, amask1 |-> amask1,
      base2 |-> IF shifted THEN OtherRowsShifted(base1, r) ELSE base1,
      amask2 |-> IF padded THEN OtherRowsPadded(amask1, r) ELSE amask1] :
        base1 \in {[b \in Rows |-> 1], [b \in Rows |-> IF b = r THEN 2 ELSE 1]},
        amask1 \in {NoMask, AllValid(MaxLen), OnePadded(MaxLen, r, 0)},
        shifted \in BOOLEAN, padded \in BOOLEAN}

\* the cache variables of one batch after _concatenate_to_cache created them
FreshCache == [cached_key |-> ZeroCache, cached_value |-> ZeroCache, cache_index |-> 0]

\* the is_initialized branch of _concatenate_to_cache on the cache variables of one batch
ConcatenateToCache(cache, hidden, n) ==
    [cached_key |-> NewCachedKey(cache.cached_key, hidden, cache.cache_index, n),
     cached_value |-> NewCachedValue(cache.cached_value, hidden, cache.cache_index, n),
     cache_index |-> NewCacheIndex(cache.cache_index, n)]

PairInit == pair = [state |-> "none"]

\* init_cache for both batches; row r is the row whose inputs will agree
PairInitCache(r) ==
    /\ pair' = [state |-> "ready", row |-> r, caches |-> <<FreshCache, FreshCache>>,
                n |-> 0, cur |-> 0, amasks |-> <<NoMask, NoMask>>]
    /\ UNCHANGED <<cacheVars, forceVars, genVars, cfgVars, detVars, setupVars, decVars, shapeVars>>

\* the same cached causal self-attention call on both batches: n new positions each;
\* the batches attend with CachedMask(amask1, cur, n) and CachedMask(amask2, cur, n)
PairCachedAttention(n, in) ==
    /\ pair.state = "ready"
    /\ ~CachedSliceFails(n)
    \* a cache written up to max_length or beyond is not driven further
    /\ pair.caches[1].cache_index < MaxLen
    /\ pair' = [pair EXCEPT
                  !.caches = <<ConcatenateToCache(pair.caches[1], HiddenBlock(in.base1, n), n),
                               ConcatenateToCache(pair.caches[2], HiddenBlock(in.base2, n), n)>>,
                  !.n = n,
                  !.cur = pair.caches[1].cache_index,
                  !.amasks = <<in.amask1, in.amask2>>]
    /\ UNCHANGED <<cacheVars, forceVars, genVars, cfgVars, detVars, setupVars, decVars, shapeVars>>

PairCachedCall ==
    /\ pair.state = "ready"
    /\ \E n \in 1 .. MaxTargetPositions : \E in \in PairInputs(pair.row) :
          PairCachedAttention(n, in)

PairNext ==
    \/ \E r \in Rows : PairInitCache(r)
    \/ PairCachedCall

(***************************************************************************)
(* The decoder stack in a generation call: prepare_inputs_for_generation    *)
(* creates the cache of every layer and the position ids, decode runs the   *)
(* layers on the new positions, update_inputs_for_generation carries the    *)
(* returned cache and the next position ids to the next step.               *)
(***************************************************************************)
Layers == 1 .. NumLayers
\* past_key_values = None
NoPast == <<>>
\* decoder_position_ids = None
NoPositionIds == <<>>

\* a decoder_attention_mask of a prompt of seq_length positions whose row b starts with pads[b] padding positions
LeftPadded(seq_length, pads) ==
    [given |-> TRUE,
     m |-> [b \in Rows |-> [j \in 0 .. (seq_length - 1) |-> IF j < pads[b] THEN 0 ELSE 1]]]
\* no mask, or a mask that pads the start of row 0 (by no position: a mask of ones)
PromptMasks(seq_length) ==
    {NoMask} \cup {LeftPadded(seq_length, [b \in Rows |-> IF b = 0 THEN p ELSE 0]) :
                      p \in 0 .. (seq_length - 1)}
Unpadded(dmask) == ~dmask.given \/ \A b \in Rows : \A j \in DOMAIN dmask.m[b] : dmask.m[b][j] = 1

\* decoder_attention_mask.cumsum(-1), entry j of a row
RECURSIVE CumSum(_, _)
CumSum(row, j) == IF j < 0 THEN 0 ELSE row[j] + CumSum(row, j - 1)

\* prepare_inputs_for_generation: position_ids
PreparePositionIds(seq_length, dmask) ==
    [b \in Rows |-> [j \in 0 .. (seq_length - 1) |->
        IF dmask.given THEN CumSum(dmask.m[b], j) - 1 ELSE j]]

\* prepare_inputs_for_generation: extended_attention_mask, ones of length max_length with the
\* decoder_attention_mask written at its start
ExtendedAttentionMask(seq_length, dmask) ==
    [given |-> TRUE,
     m |-> [b \in Rows |-> [j \in Pos |->
        IF dmask.given /\ j < seq_length THEN dmask.m[b][j] ELSE 1]]]

\* update_inputs_for_generation: decoder_position_ids[:, -1:] + 1
NextPositionIdsKept(position_ids) ==
    [b \in Rows |-> [j \in {0} |-> position_ids[b][Cardinality(DOMAIN position_ids[b]) - 1]]]
NextPositionIds(position_ids) ==
    [b \in Rows |-> [j \in {0} |-> position_ids[b][Cardinality(DOMAIN position_ids[b]) - 1] + 1]]

\* the number of positions of a batch of position ids
NumPositions(position_ids) == Cardinality(DOMAIN position_ids[0])

\* _concatenate_to_cache on the cache variables of one layer: the variables are created as
\* zeros with index 0, and written only when they existed before the call
CacheAfterCallAlwaysWrites(is_initialized, cache, hidden, n) ==
    ConcatenateToCache(IF is_initialized THEN cache ELSE FreshCache, hidden, n)
CacheAfterCall(is_initialized, cache, hidden, n) ==
    IF is_initialized THEN ConcatenateToCache(cache, hidden, n) ELSE FreshCache

\* the hidden states layer k projects to keys and values: a fixed function of the
\* positions fed and of the layer
LayerInput(k, position_ids, n) ==
    [b \in Rows |-> [i \in 0 .. (n - 1) |-> position_ids[b][i] + k]]

\* FlaxWhisperDecoderLayerCollection.__call__, the first k layers, with the cache variables
\* of every layer (past = NoPast: no cache collection, and init_cache false).  A skipped
\* layer leaves None as hidden state, which no later layer (nor the final layer norm) accepts.
RECURSIVE DecoderStack(_, _, _, _, _, _, _)
DecoderStack(past, is_initialized, position_ids, n, draws, deterministic, k) ==
    IF k = 0
    THEN [error |-> FALSE, cache |-> past, executed |-> <<>>]
    ELSE LET before == DecoderStack(past, is_initialized, position_ids, n, draws, deterministic, k - 1)
         IN IF before.error THEN before
            ELSE IF LayerIsSkipped(deterministic, draws[k])
            THEN [before EXCEPT !.error = TRUE]
            ELSE [error |-> FALSE,
                  cache |-> IF past = NoPast THEN NoPast
                            ELSE [before.cache EXCEPT
                                    ![k] = CacheAfterCall(is_initialized, @,
                                                          LayerInput(k, position_ids, n), n)],
                  executed |-> Append(before.executed, k)]

\* config.encoder_layers
NumEncoderLayers == 2
\* config.encoder_layerdrop, in tenths
EncoderLayerDrop == 5
EncoderDraws == [1 .. NumEncoderLayers -> DrawChoices]

\* the encoder's "if not deterministic and (dropout_probability < self.layerdrop)"
EncoderLayerIsSkippedInAnyMode(deterministic, dropout_probability) ==
    dropout_probability < EncoderLayerDrop
EncoderLayerIsSkipped(deterministic, dropout_probability) ==
    ~deterministic /\ dropout_probability < EncoderLayerDrop

\* FlaxWhisperEncoderLayerCollection.__call__, the first k layers: a skipped layer leaves
\* None as hidden state, which no later layer (nor the final layer norm) accepts
RECURSIVE EncoderStack(_, _, _)
EncoderStack(draws, deterministic, k) ==
    IF k = 0
    THEN [error |-> FALSE, executed |-> <<>>]
    ELSE LET before == EncoderStack(draws, deterministic, k - 1)
         IN IF before.error THEN before
            ELSE IF EncoderLayerIsSkipped(deterministic, draws[k])
            THEN [before EXCEPT !.error = TRUE]
            ELSE [error |-> FALSE, executed |-> Append(before.executed, k)]

\* a draw that skips a layer when the pass is not deterministic
SkippingDraw(draws, layerdrop) == \E k \in DOMAIN draws : draws[k] < layerdrop

\* init_cache: the decoder module is initialised with init_cache = True on
\* decoder_input_ids = ones((batch_size, max_length)); the "cache" collection is returned
InitCacheOfModel ==
    DecoderStack([k \in Layers |-> FreshCache], FALSE,
                 [b \in Rows |-> [j \in Pos |-> j]], MaxLen,
                 [k \in Layers |-> 0], TRUE, NumLayers).cache

\* the outcome of a call: an error, or the outputs (past_key_values only when a cache was passed)
NoPass == [kind |-> "none", n |-> 0, cur |-> 0, with_past |-> FALSE, with_position_ids |-> FALSE,
           train |-> FALSE, error |-> FALSE, executed |-> <<>>, past_key_values |-> NoPast,
           fed |-> NoPositionIds, low_draw |-> FALSE,
           with_encoder |-> TRUE, hidden |-> NoneHidden.none]

\* decode: "if decoder_position_ids is None: if past_key_values is not None: raise ValueError"
PositionIdsNeverMissing(past_key_values, decoder_position_ids) == FALSE
PositionIdsMissing(past_key_values, decoder_position_ids) ==
    decoder_position_ids = NoPositionIds /\ past_key_values # NoPast

\* FlaxWhisperForConditionalGeneration.decode on n new positions
DecodeOutcome(n, past_key_values, decoder_position_ids, train, draws) ==
    IF PositionIdsMissing(past_key_values, decoder_position_ids)
    THEN [error |-> TRUE, executed |-> <<>>, past_key_values |-> NoPast]
    ELSE LET position_ids == IF decoder_position_ids = NoPositionIds
                             THEN [b \in Rows |-> [j \in 0 .. (n - 1) |-> j]]
                             ELSE decoder_position_ids
             out == DecoderStack(past_key_values, TRUE, position_ids, n, draws,
                                 Deterministic(train), NumLayers)
         IN [error |-> out.error, executed |-> out.executed,
             past_key_values |-> IF out.error THEN NoPast ELSE out.cache]

DecInit == dec = [state |-> "none"]

\* the start of a generation call on a prompt of seq_length tokens (after_call: an earlier
\* generation call had run its loop)
PrepareInputsForGeneration(seq_length, dmask) ==
    /\ dec' = [state |-> "prepared",
               prompt |-> seq_length,
               unpadded |-> Unpadded(dmask),
               after_call |-> dec.state = "running",
               past_key_values |-> InitCacheOfModel,
               decoder_attention_mask |-> ExtendedAttentionMask(seq_length, dmask),
               decoder_position_ids |-> PreparePositionIds(seq_length, dmask),
               pass |-> [NoPass EXCEPT !.kind = "init", !.n = MaxLen,
                                        !.past_key_values = InitCacheOfModel]]
    /\ UNCHANGED <<cacheVars, forceVars, genVars, cfgVars, detVars, pairVars, setupVars, shapeVars>>

\* one iteration of the generation loop: decode on the model inputs of the loop, then
\* update_inputs_for_generation
LoopDecode(draws) ==
    /\ dec.state \in {"prepared", "running"}
    /\ LET n == NumPositions(dec.decoder_position_ids)
           cur == dec.past_key_values[1].cache_index
           out == DecodeOutcome(n, dec.past_key_values, dec.decoder_position_ids, FALSE, draws)
       IN /\ cur + n <= MaxLen
          /\ ~out.error
          /\ dec' = [dec EXCEPT
                       !.state = "running",
                       !.past_key_values = out.past_key_values,
                       !.decoder_position_ids = NextPositionIds(dec.decoder_position_ids),
                       !.pass = [kind |-> "loop", n |-> n, cur |-> cur, with_past |-> TRUE,
                                 with_position_ids |-> TRUE, train |-> FALSE, error |-> FALSE,
                                 executed |-> out.executed,
                                 past_key_values |-> out.past_key_values,
                                 fed |-> dec.decoder_position_ids,
                                 low_draw |-> SkippingDraw(draws, LayerDrop),
                                 with_encoder |-> TRUE, hidden |-> NoneHidden.none]]
    /\ UNCHANGED <<cacheVars, forceVars, genVars, cfgVars, detVars, pairVars, setupVars, shapeVars>>

\* a call of decode by a caller who holds the model inputs of the loop: with or without
\* the cache, with or without position ids, in training mode or not
DecodeCall(n, with_past, with_position_ids, train, draws) ==
    /\ dec.state \in {"prepared", "running"}
    /\ LET cur == dec.past_key_values[1].cache_index
           past == IF with_past THEN dec.past_key_values ELSE NoPast
           ids == IF with_position_ids
                  THEN [b \in Rows |-> [j \in 0 .. (n - 1) |-> cur + j]]
                  ELSE NoPositionIds
           out == DecodeOutcome(n, past, ids, train, draws)
       IN dec' = [dec EXCEPT
                    !.pass = [kind |-> "decode", n |-> n, cur |-> cur, with_past |-> with_past,
                              with_position_ids |-> with_position_ids, train |-> train,
                              error |-> out.error, executed |-> out.executed,
                              past_key_values |-> out.past_key_values, fed |-> ids,
                              low_draw |-> SkippingDraw(draws, LayerDrop),
                              with_encoder |-> TRUE, hidden |-> NoneHidden.none]]
    /\ UNCHANGED <<cacheVars, forceVars, genVars, cfgVars, detVars, pairVars, setupVars, shapeVars>>

\* the blocks of a decoder layer, each a fixed function of its input
SelfAttnBlock(hidden_states) == (2 * hidden_states + 1) % VocabSize
CrossAttnBlock(hidden_states, encoder_hidden_states) ==
    (hidden_states + 3 * encoder_hidden_states) % VocabSize
FeedForwardBlock(hidden_states) == (5 * hidden_states + 2) % VocabSize

\* FlaxWhisperDecoderLayer.__call__: cross_attn_output is assigned only inside
\* "if encoder_hidden_states is not None", and read after it whatever the branch; reading
\* the unassigned local raises UnboundLocalError
DecoderLayerOutcome(hidden_states, encoder_hidden_states) ==
    LET self_attn_output == (hidden_states + SelfAttnBlock(hidden_states)) % VocabSize
        cross_attn_output ==
            (self_attn_output + CrossAttnBlock(self_attn_output, encoder_hidden_states)) % VocabSize
    IN IF encoder_hidden_states # NoneHidden.none
       THEN [error |-> FALSE,
             hidden |-> (cross_attn_output + FeedForwardBlock(cross_attn_output)) % VocabSize]
       ELSE [error |-> TRUE, hidden |-> NoneHidden.none]

\* a call of one decoder layer, with encoder hidden states or with the default None
DecoderLayerCall(hidden_states, encoder_hidden_states) ==
    /\ dec.state \in {"prepared", "running"}
    /\ LET out == DecoderLayerOutcome(hidden_states, encoder_hidden_states)
       IN dec' = [dec EXCEPT
                    !.pass = [NoPass EXCEPT !.kind = "layer",
                                            !.with_encoder = encoder_hidden_states # NoneHidden.none,
                                            !.error = out.error, !.hidden = out.hidden]]
    /\ UNCHANGED <<cacheVars, forceVars, genVars, cfgVars, detVars, pairVars, setupVars, shapeVars>>

\* a forward pass of the encoder layers, in training mode or not
EncoderPass(train, draws) ==
    /\ dec.state \in {"prepared", "running"}
    /\ LET out == EncoderStack(draws, Deterministic(train), NumEncoderLayers)
       IN dec' = [dec EXCEPT
                    !.pass = [NoPass EXCEPT !.kind = "encoder", !.train = train,
                                            !.error = out.error, !.executed = out.executed,
                                            !.low_draw = SkippingDraw(draws, EncoderLayerDrop)]]
    /\ UNCHANGED <<cacheVars, forceVars, genVars, cfgVars, detVars, pairVars, setupVars, shapeVars>>

PrepareCall ==
    \E seq_length \in 1 .. MaxLen : \E dmask \in PromptMasks(seq_length) :
        PrepareInputsForGeneration(seq_length, dmask)

LoopCall == \E draws \in Draws : LoopDecode(draws)

DecodeCalls ==
    \E n \in {1} : \E with_past \in BOOLEAN : \E with_position_ids \in BOOLEAN :
        \E train \in BOOLEAN : \E draws \in Draws :
            DecodeCall(n, with_past, with_position_ids, train, draws)

EncoderCalls == \E train \in BOOLEAN : \E draws \in EncoderDraws : EncoderPass(train, draws)

LayerCalls ==
    \E hidden_states \in EncoderChoices : \E encoder_hidden_states \in EncoderChoices \cup {NoneHidden.none} :
        DecoderLayerCall(hidden_states, encoder_hidden_states)

DecNext == PrepareCall \/ LoopCall \/ DecodeCalls \/ EncoderCalls \/ LayerCalls

(***************************************************************************)
(* The shape check of _concatenate_to_cache: a cache that carries its       *)
(* shape, called with queries of any shape.                                 *)
(***************************************************************************)
\* batch sizes, numbers of heads and head dimensions
BatchChoices == 1 .. NumRows
HeadChoices == {1, 2}
\* cached_key.value.shape = (batch_size, num_heads, head_dim, seq_length)
CacheShapes == {<<b, h, d, MaxLen>> : b \in BatchChoices, h \in HeadChoices, d \in HeadChoices}
\* query.shape = (batch_size, query_length, num_heads, head_dim)
QueryShapes == {<<b, n, h, d>> : b \in BatchChoices, n \in 1 .. 2, h \in HeadChoices, d \in HeadChoices}

\* expected_shape = (batch_size, 1, num_heads, head_dim)
ExpectedShape(cache_shape) == <<cache_shape[1], 1, cache_shape[2], cache_shape[3]>>

\* "if num_updated_cache_vectors == 1 and expected_shape != query.shape"
ShapeCheckIgnoresBatch(cache_shape, query_shape) ==
    query_shape[2] = 1 /\ Tail(ExpectedShape(cache_shape)) # Tail(query_shape)
ShapeCheckFails(cache_shape, query_shape) ==
    query_shape[2] = 1 /\ ExpectedShape(cache_shape) # query_shape

\* the slots of the cache a call with n new positions writes
SlotsWritten(cur_index, n) ==
    IF n > 1 THEN {j \in Pos : \E i \in 0 .. (n - 1) : Eye(n, MaxLen, i, j) = 1}
    ELSE {j \in Pos : OneHot(cur_index, MaxLen, j) = 1}

ShapeInit == shaped = [state |-> "none"]

\* the cache variables are created with the shape of the first keys
ShapedInitCache(cache_shape) ==
    /\ shaped' = [state |-> "ready", shape |-> cache_shape, cache_index |-> 0, slots |-> {},
                  query |-> <<>>, before |-> [cache_index |-> 0, slots |-> {}], error |-> FALSE]
    /\ UNCHANGED <<cacheVars, forceVars, genVars, cfgVars, detVars, pairVars, setupVars, decVars>>

\* the is_initialized branch on a query of the given shape: the check is made before any write
ShapedCachedCall(query_shape) ==
    /\ shaped.state = "ready"
    /\ shaped.cache_index < MaxLen
    \* several positions at once are only fed with the shape of the cache
    /\ query_shape[2] > 1 =>
          <<query_shape[1], query_shape[3], query_shape[4]>> =
              <<shaped.shape[1], shaped.shape[2], shaped.shape[3]>>
    /\ LET before == [cache_index |-> shaped.cache_index, slots |-> shaped.slots]
       IN IF ShapeCheckFails(shaped.shape, query_shape)
          THEN shaped' = [shaped EXCEPT !.query = query_shape, !.before = before, !.error = TRUE]
          ELSE shaped' = [shaped EXCEPT
                            !.query = query_shape, !.before = before, !.error = FALSE,
                            !.slots = @ \cup SlotsWritten(shaped.cache_index, query_shape[2]),
                            !.cache_index = NewCacheIndex(@, query_shape[2])]
    /\ UNCHANGED <<cacheVars, forceVars, genVars, cfgVars, detVars, pairVars, setupVars, decVars>>

ShapedInit == \E cache_shape \in CacheShapes : ShapedInitCache(cache_shape)

ShapedCall ==
    /\ shaped.state = "ready"
    /\ \E query_shape \in QueryShapes : ShapedCachedCall(query_shape)

ShapeNext == ShapedInit \/ ShapedCall

Init ==
    /\ CacheInit /\ ForceInit /\ GenInit /\ CfgInit /\ DetInit /\ PairInit /\ SetupInit
    /\ DecInit /\ ShapeInit

CacheNext == InitCache \/ CachedCall

SpecCache == Init /\ [][CacheNext]_vars

SpecMask == Init /\ [][UncachedCall]_vars

SpecAttn == Init /\ [][AttnNext]_vars

SpecForce == Init /\ [][ForceNext]_vars

SpecGen == Init /\ [][GenNext]_vars

\* a generation call is sequential code: once started, the loop keeps taking its steps
SpecGenLive == SpecGen /\ WF_vars(Decode)

SpecCfg == Init /\ [][CfgNext]_vars

SpecDet == Init /\ [][DetNext]_vars

SpecPair == Init /\ [][PairNext]_vars

SpecSetup == Init /\ [][SetupNext]_vars

SpecDec == Init /\ [][DecNext]_vars

SpecShape == Init /\ [][ShapeNext]_vars

(***************************************************************************)
(* Properties of the cache and of the masks                                 *)
(***************************************************************************)
\* the mask the last cached call attended with, [row][query][key]
LastCachedMask == CachedMask(last.amask, last.cur, last.n)
\* the mask the last uncached call attended with
LastUncachedMask == UncachedMask(last.amask, last.n, last.cur)
\* whether the caller's mask marks key position j of row b as padding
Padded(amask, b, j) == amask.given /\ amask.m[b][j] = 0

\* C1: a cached single-position step made while the cursor is c attends only key
\* positions j <= c, whatever attention mask the caller supplies.
C1_StepMasksFutureKeys ==
    (last.kind = "step" /\ last.result = "ok") =>
        \A b \in Rows, j \in Pos : LastCachedMask[b][0][j] => j <= last.cur

C1_Witness ==
    /\ last.kind = "step" /\ last.result = "ok"
    /\ last.cur = 1 /\ last.cur + 1 \in Pos
    /\ last.amask = AllValid(MaxLen)
    /\ \A b \in Rows : LastCachedMask[b][0][last.cur] /\ ~LastCachedMask[b][0][last.cur + 1]

\* C2: after a prefill on the fresh cache followed by single steps, within max_length,
\* keys, values and cursor equal those of one prefill of all the positions written.
C2_CacheEquivalence ==
    (has_cache /\ legal /\ Len(written[0]) >= 1) =>
        LET n == Len(written[0])
            all == [b \in Rows |-> [i \in 0 .. (n - 1) |-> written[b][i + 1]]]
        IN /\ cached_key = NewCachedKey(ZeroCache, all, 0, n)
           /\ cached_value = NewCachedValue(ZeroCache, all, 0, n)
           /\ cache_index = NewCacheIndex(0, n)

C2_Witness ==
    /\ has_cache /\ legal
    /\ last.kind = "step" /\ last.result = "ok" /\ last.cur = MaxLen - 1
    /\ Len(written[0]) = MaxLen
    /\ \A b \in Rows : cached_key[b][MaxLen - 1] = KProj(written[b][MaxLen])

\* C3: a single step on a full cache, and a prefill longer than max_length, end in an error.
C3_OverflowIsAnError ==
    (\/ (last.kind = "step" /\ last.cur >= MaxLen)
     \/ (last.kind = "prefill" /\ last.n > MaxLen)) => last.result = "error"

\* C7: without a cache, query position i attends key position j iff j <= i (and, when the
\* caller supplies a padding mask, j is not padded).
C7_UncachedCausalMask ==
    last.kind = "uncached" =>
        \A b \in Rows, i \in 0 .. (last.n - 1), j \in 0 .. (last.cur - 1) :
            LastUncachedMask[b][i][j] <=> (j <= i /\ ~Padded(last.amask, b, j))

C7_Witness ==
    /\ last.kind = "uncached" /\ last.n = MaxTargetPositions /\ last.cur = MaxTargetPositions
    /\ ~last.amask.given
    /\ \A b \in Rows : LastUncachedMask[b][1][1] /\ ~LastUncachedMask[b][0][1]

\* C8: a write of more than one position into a cache whose cursor is > 0 is rejected.
C8_PrefillAfterWritesIsAnError ==
    (last.kind = "prefill" /\ last.cur > 0) => last.result = "error"

\* C9: the cursor of an existing cache stays within 0 .. max_length.
C9_CursorInRange ==
    has_cache => (0 <= cache_index /\ cache_index <= MaxLen)

\* C10: every key and value slot at a position >= cursor holds zero.
C10_ZeroAtAndBeyondCursor ==
    has_cache =>
        \A b \in Rows, j \in Pos :
            j >= cache_index => (cached_key[b][j] = 0 /\ cached_value[b][j] = 0)

C10_Witness ==
    /\ has_cache /\ cache_index = MaxLen - 1 /\ last.result = "ok"
    /\ \A b \in Rows : cached_key[b][cache_index - 1] # 0 /\ cached_key[b][cache_index] = 0

\* C16: constructing an attention block raises iff embed_dim is not a multiple of
\* num_heads, and attention is only ever computed by a block whose construction passed.
C16_SetupRaisesIffNotDivisible ==
    /\ attn.kind = "setup" => (attn.result = "error" <=> attn.embed_dim % attn.num_heads # 0)
    /\ attn.kind = "called" =>
          (attn.embed_dim % attn.num_heads = 0 /\ attn.head_dim * attn.num_heads = attn.embed_dim)

\* more heads than embed_dim: head_dim is 0 and construction fails
C16_Witness ==
    /\ attn.kind = "setup" /\ attn.result = "error"
    /\ attn.num_heads > attn.embed_dim /\ attn.head_dim = 0

\* C17: a single-position cached call made while the cursor is c < max_length stores the
\* new key and value of every row at position c, moves the cursor to c + 1 and leaves the
\* keys and values of every other position as they were.
C17_StepWritesAtCursor ==
    [][(last'.kind = "step" /\ last'.result = "ok" /\ last'.cur = cache_index
            /\ cache_index < MaxLen) =>
          /\ cache_index' = cache_index + 1
          /\ \A b \in Rows :
                LET new == written'[b][Len(written'[b])]
                IN /\ Len(written'[b]) = Len(written[b]) + 1
                   /\ cached_key'[b][cache_index] = KProj(new)
                   /\ cached_value'[b][cache_index] = VProj(new)
                   /\ \A j \in Pos \ {cache_index} :
                         /\ cached_key'[b][j] = cached_key[b][j]
                         /\ cached_value'[b][j] = cached_value[b][j]]_vars

\* a step at cursor 1 after a step at cursor 0
C17_Witness ==
    /\ has_cache /\ last.kind = "step" /\ last.result = "ok" /\ last.cur = 1 /\ cache_index = 2
    /\ \A b \in Rows :
          /\ Len(written[b]) = 2
          /\ cached_key[b][0] = KProj(written[b][1]) /\ cached_key[b][1] = KProj(written[b][2])
          /\ cached_value[b][1] = VProj(written[b][2])
          /\ \A j \in Pos : j > 1 => cached_key[b][j] = 0

\* C18: a cached call of n new positions made while the cursor is c fills exactly the
\* cache slots c .. c+n-1, and row i of its causal-mask slice is row c+i of the causal
\* mask, for n > 1 as for n = 1.
C18_WritesMatchMaskRows ==
    [][(last'.kind \in {"step", "prefill"} /\ last'.result = "ok" /\ last'.cur = cache_index) =>
          LET c == cache_index
              n == last'.n
          IN /\ \A b \in Rows, j \in Pos :
                   (cached_key'[b][j] # cached_key[b][j]) <=> (c <= j /\ j < c + n)
             /\ \A i \in 0 .. (n - 1), j \in Pos :
                   (c + i \in TPos) => (CachedCausalSlice(c, n, i, j) <=> causal_mask(c + i, j))]_vars

C19_PaddedKeysNeverAttended ==
    /\ last.kind = "uncached" =>
          \A b \in Rows, i \in 0 .. (last.n - 1), j \in 0 .. (last.cur - 1) :
              Padded(last.amask, b, j) => ~LastUncachedMask[b][i][j]
    /\ (last.kind \in {"step", "prefill"} /\ last.result = "ok") =>
          \A b \in Rows, i \in 0 .. (last.n - 1), j \in Pos :
              Padded(last.amask, b, j) => ~LastCachedMask[b][i][j]
    /\ last.kind \in {"encoder_self", "cross"} =>
          \A b \in Rows, j \in 0 .. (last.cur - 1) :
              NonCausalAllowed(last.amask, b, j) <=> ~Padded(last.amask, b, j)

\* a cached single step whose caller pads the first key position of row 0: row 0 does not
\* attend it, the other rows do
C19_Witness ==
    /\ last.kind = "step" /\ last.result = "ok" /\ last.cur = MaxLen - 1
    /\ last.amask = OnePadded(MaxLen, 0, 0)
    /\ ~LastCachedMask[0][0][0] /\ LastCachedMask[0][0][1]
    /\ \A b \in Rows \ {0} : LastCachedMask[b][0][0]

\* C20: an encoder self-attention call or a decoder cross-attention call leaves the cache
\* variables as they are: none is created, written or advanced.
C20_OnlyCausalSelfAttentionTouchesCache ==
    [][last'.kind \in {"encoder_self", "cross"} =>
          UNCHANGED <<has_cache, cached_key, cached_value, cache_index>>]_vars

\* a cross-attention call made while a cache with written positions exists
C20_Witness ==
    /\ last.kind = "cross" /\ has_cache /\ cache_index = MaxLen - 1
    /\ \A b \in Rows : cached_key[b][0] # 0 /\ cached_key[b][MaxLen - 1] = 0

(***************************************************************************)
(* Properties of the forced-token processor                                 *)
(***************************************************************************)
\* the one-hot scores on token tok: 0 at tok, -inf elsewhere, in every row
OneHotOn(tok) == [b \in Rows |-> [v \in Vocab |-> IF v = tok THEN 0 ELSE NegInf]]

\* C4: at step t the processor returns scores one-hot on the table's token when t is inside
\* the table and the slot is not the sentinel, and the unchanged scores otherwise; for the
\* table {(0, X), (2, Y)} steps 0 and 2 are one-hot on X and Y, steps 1 and 5 are unchanged.
C4_ForcedOrUnchanged ==
    fcall.kind = "call" =>
        LET t == fcall.cur_len
            inside == t < Len(force_token_array)
        IN /\ (inside /\ force_token_array[t + 1] >= 0) => fcall.out = OneHotOn(force_token_array[t + 1])
           /\ (~inside \/ force_token_array[t + 1] < 0) => fcall.out = fcall.in
           /\ force_token_map = <<<<0, 3>>, <<2, 7>>>> =>
                 /\ t = 0 => fcall.out = OneHotOn(3)
                 /\ t = 1 => fcall.out = fcall.in
                 /\ t = 2 => fcall.out = OneHotOn(7)
                 /\ t = 5 => fcall.out = fcall.in

C4_Witness ==
    /\ fcall.kind = "call"
    /\ force_token_map = <<<<0, 3>>, <<2, 7>>>>
    /\ fcall.cur_len = 2
    /\ fcall.out = OneHotOn(7) /\ fcall.out # fcall.in

C5_ForcedPrefix ==
    (gen.state # "Idle" /\ gen.forced_map = <<<<1, 7>>, <<2, 3>>>>) =>
        \A b \in Rows :
            LET expected == <<GenerationDefaults.decoder_start_token_id, 7, 3>>
            IN \A k \in 1 .. Min(Len(gen.sequences[b]), 3) : gen.sequences[b][k] = expected[k]

C5_Witness ==
    /\ gen.state = "Done" /\ gen.forced_map = <<<<1, 7>>, <<2, 3>>>>
    /\ \A b \in Rows : Len(gen.sequences[b]) >= 3 /\ SubSeq(gen.sequences[b], 1, 3) = <<0, 7, 3>>

\* C11: a generation call starts in Prefill, goes on to Decode or Done, and always reaches
\* Done; Done is left only by the call returning, and the sequences never hold more than
\* max_length tokens.
C11_Terminates ==
    /\ [](gen.state # "Idle" => \A b \in Rows : Len(gen.sequences[b]) <= gen.max_length)
    /\ (gen.state = "Prefill" ~> gen.state = "Done")
    /\ [][/\ gen.state = "Idle" => gen'.state = "Prefill"
          /\ gen.state \in {"Prefill", "Decode"} => gen'.state \in {"Decode", "Done"}
          /\ gen.state = "Done" => gen' = [state |-> "Idle"]]_gen

\* a call ended by max_length, no row having produced the end-of-sequence token
C11_Witness ==
    /\ gen.state = "Done"
    /\ \A b \in Rows : Len(gen.sequences[b]) = gen.max_length /\ ~gen.is_sent_finished[b]

\* C12: two inference runs (train = False) on the same encoder output, prompt and
\* forced-token table hold the same sequences after every step, whatever their
\* LayerDrop draws were.
C12_Deterministic ==
    (det.state = "Running" /\ ~det.train) => det.runs[1] = det.runs[2]

\* both inference runs ended with max_length tokens chosen by the decoder, none forced
C12_Witness ==
    /\ det.state = "Running" /\ ~det.train /\ det.forced_map = <<>>
    /\ det.runs[1] = det.runs[2]
    /\ det.runs[1].state = "Done"
    /\ \A b \in Rows : Len(det.runs[1].sequences[b]) = GenerationDefaults.max_length

(***************************************************************************)
(* Properties of generate and pipeline_generate                             *)
(***************************************************************************)
\* C6: what a generate or pipeline_generate call hands to the generation loop (forced
\* decoder ids, logit processors) is what the same call hands over on a freshly loaded
\* model: nothing an earlier call wrote into the generation configuration changes it.
C6_NoStateSurvivesACall ==
    /\ gcall.kind = "generate" =>
          /\ gcall.forced_decoder_ids =
                GenerateConfigAfter(FreshGenerationConfig, gcall.args).forced_decoder_ids
          /\ gcall.logits_processor =
                GenerateProcessors(ConfigAfterArgs(FreshGenerationConfig, gcall.args), gcall.args)
    /\ gcall.kind = "pipeline_generate" =>
          /\ gcall.forced_decoder_ids =
                PipelineConfigAfter(FreshGenerationConfig, gcall.args).forced_decoder_ids
          /\ gcall.logits_processor = PipelineProcessors(FreshGenerationConfig, gcall.args)

\* C15: the processor list generate hands to the generation loop holds every processor the
\* caller supplied, in the caller's order, and also the timestamp processor when
\* timestamps are requested.
C15_CallerProcessorsKept ==
    gcall.kind = "generate" =>
        LET caller == gcall.args.logits_processor
            passed == gcall.logits_processor
        IN /\ \E f \in [1 .. Len(caller) -> 1 .. Len(passed)] :
                 /\ \A i \in 1 .. Len(caller) : passed[f[i]] = caller[i]
                 /\ \A i, j \in 1 .. Len(caller) : i < j => f[i] < f[j]
           /\ gcall.args.return_timestamps = "true" =>
                 \E k \in 1 .. Len(passed) : passed[k] = "timestamp"

(***************************************************************************)
(* Properties of the decoder stack in a generation call                     *)
(***************************************************************************)
\* C21: after an unpadded prompt, every pass of the generation loop feeds the position ids
\* cursor, cursor + 1, ... where cursor is the cache index before the pass writes, so a
\* single-position step feeds exactly the cursor (L after a prompt of L tokens, then L + 1,
\* ...); the position ids kept for the next step equal the cursor after the write, in every layer
C21_PositionIdsFollowCursor ==
    (dec.state = "running" /\ dec.unpadded /\ dec.pass.kind = "loop") =>
        /\ \A b \in Rows : \A i \in 0 .. (dec.pass.n - 1) : dec.pass.fed[b][i] = dec.pass.cur + i
        /\ (dec.pass.cur > 0 => dec.pass.n = 1 /\ dec.pass.cur >= dec.prompt)
        /\ \A b \in Rows : /\ NumPositions(dec.decoder_position_ids) = 1
                           /\ dec.decoder_position_ids[b][0] = dec.pass.cur + dec.pass.n
        /\ \A k \in Layers : dec.past_key_values[k].cache_index = dec.pass.cur + dec.pass.n
\* the second single-position step after a prompt of one token has been taken
C21_Witness ==
    /\ dec.state = "running" /\ dec.unpadded /\ dec.pass.kind = "loop"
    /\ dec.prompt = 1 /\ dec.pass.n = 1 /\ dec.pass.cur = 2
    /\ \A b \in Rows : dec.pass.fed[b][0] = 2

\* C22: when prepare_inputs_for_generation returns, the cache of every decoder layer holds
\* keys and values of max_length positions that are all zero and a cursor of 0 (the
\* initialisation pass wrote nothing and advanced nothing), whether or not an earlier
\* generation call has written its own cache
C22_FreshCachePerCall ==
    dec.state = "prepared" =>
        /\ DOMAIN dec.past_key_values = Layers
        /\ dec.pass.kind = "init" => dec.pass.past_key_values = dec.past_key_values
        /\ \A k \in Layers :
              /\ dec.past_key_values[k].cache_index = 0
              /\ \A b \in Rows :
                    /\ DOMAIN dec.past_key_values[k].cached_key[b] = 0 .. (MaxLen - 1)
                    /\ DOMAIN dec.past_key_values[k].cached_value[b] = 0 .. (MaxLen - 1)
                    /\ \A j \in 0 .. (MaxLen - 1) :
                          /\ dec.past_key_values[k].cached_key[b][j] = 0
                          /\ dec.past_key_values[k].cached_value[b][j] = 0
\* a generation call has been prepared after an earlier call had filled its cache
C22_Witness ==
    /\ dec.state = "prepared" /\ dec.pass.kind = "init" /\ dec.after_call
    /\ \A k \in Layers : dec.past_key_values[k].cache_index = 0

\* C23: a cached call that feeds one position with a query whose shape is not
\* (batch, 1, num_heads, head_dim) of the cache raises an error and leaves the written
\* slots and the cursor as they were; a single position of the expected shape is written
C23_ShapeMismatchIsAnError ==
    (shaped.state = "ready" /\ shaped.query # <<>> /\ shaped.query[2] = 1) =>
        IF shaped.query # <<shaped.shape[1], 1, shaped.shape[2], shaped.shape[3]>>
        THEN /\ shaped.error
             /\ shaped.cache_index = shaped.before.cache_index
             /\ shaped.slots = shaped.before.slots
        ELSE /\ ~shaped.error
             /\ shaped.cache_index = shaped.before.cache_index + 1
\* a single-position step with another batch size has been refused on a cache that was written before
C23_Witness ==
    /\ shaped.state = "ready" /\ shaped.query # <<>> /\ shaped.query[2] = 1
    /\ shaped.query[1] # shaped.shape[1]
    /\ shaped.error /\ shaped.cache_index > 0 /\ shaped.slots # {}

\* C24: a deterministic forward pass of the encoder layers, and a deterministic pass of the
\* decoder layers that got as far as the decoder, executes every layer exactly once and in
\* index order, whatever the LayerDrop draws were
C24_NoLayerDropAtInference ==
    (dec.state \in {"prepared", "running"} /\ ~dec.pass.train) =>
        /\ dec.pass.kind = "encoder" =>
              ~dec.pass.error /\ dec.pass.executed = [k \in 1 .. NumEncoderLayers |-> k]
        /\ (dec.pass.kind \in {"loop", "decode"}
              /\ (dec.pass.with_past => dec.pass.with_position_ids)) =>
              ~dec.pass.error /\ dec.pass.executed = [k \in 1 .. NumLayers |-> k]
\* a deterministic pass of the decoder ran all layers on draws below the layerdrop rate
C24_Witness ==
    /\ dec.state \in {"prepared", "running"} /\ ~dec.pass.train /\ dec.pass.low_draw
    /\ dec.pass.kind = "decode" /\ Len(dec.pass.executed) = NumLayers

\* C25: every supplied pair (i, tok) with 0 <= i <= 3 that is the last of the list to name i
\* is in force: a call of the processor at step i returns scores one-hot on tok
C25_TableCoversUpToPositionThree ==
    (force_token_array # <<>> /\ fcall.kind = "call") =>
        \A k \in 1 .. Len(force_token_map) :
            LET i == force_token_map[k][1]
                tok == force_token_map[k][2]
            IN (/\ 0 <= i /\ i <= 3
                /\ \A l \in 1 .. Len(force_token_map) : force_token_map[l][1] = i => l <= k
                /\ fcall.cur_len = i) =>
                    fcall.out = OneHotOn(tok)

(***************************************************************************)
(* Properties of pipeline_generate with a prompt                            *)
(***************************************************************************)
\* C26: after pipeline_generate with prompt_ids the forced_decoder_ids of the generation
\* configuration are numbered 1, 2, ... and their tokens are the retained prompt text tokens
\* (the prompt without its first id, cut to its last -(-max_length // 2 - 1) tokens) in
\* order, then the configured decoder start token, then the caller's forced tokens in the
\* order supplied; the first prompt id is handed on as decoder_start_token_id
C26_PromptForcedIdsRenumbered ==
    (gcall.kind = "pipeline_generate" /\ gcall.args.prompt_ids.given) =>
        LET ids == generation_config.forced_decoder_ids
            prompt == gcall.args.prompt_ids.ids
            caller == gcall.args.forced_decoder_ids
            nt == Len(ids) - 1 - Len(caller)
            keep == 0 - (((0 - GenerationDefaults.max_length) \div 2) - 1)
        IN /\ \A k \in 1 .. Len(ids) : ids[k][1] = k
           /\ nt = Min(Len(prompt) - 1, keep)
           /\ \A k \in 1 .. nt : ids[k][2] = prompt[Len(prompt) - nt + k]
           /\ ids[nt + 1][2] = GenerationDefaults.decoder_start_token_id
           /\ \A j \in 1 .. Len(caller) : ids[nt + 1 + j][2] = caller[j][2]
           /\ gcall.decoder_start_token_id = prompt[1]
\* a prompt longer than what is retained, with two caller tokens
C26_Witness ==
    /\ gcall.kind = "pipeline_generate"
    /\ gcall.args.prompt_ids = [given |-> TRUE, ids |-> <<5, 6, 7, 6, 7>>]
    /\ gcall.args.forced_decoder_ids = <<<<1, 7>>, <<2, 3>>>>
    /\ generation_config.forced_decoder_ids =
          <<<<1, 7>>, <<2, 6>>, <<3, 7>>, <<4, 0>>, <<5, 7>>, <<6, 3>>>>
    /\ gcall.decoder_start_token_id = 5

\* C27: in a pipeline_generate call with a prompt there is no step at which the static
\* forced-token processor (its table built from the caller's pairs) forces one token while
\* the forced_decoder_ids of the generation configuration name another token for that step
C27_AtMostOneTokenForced ==
    (gcall.kind = "pipeline_generate" /\ gcall.args.prompt_ids.given) =>
        \A step \in 0 .. (Len(gcall.static_force_token_array) - 1) :
            gcall.static_force_token_array[step + 1] >= 0 =>
                \A k \in 1 .. Len(generation_config.forced_decoder_ids) :
                    generation_config.forced_decoder_ids[k][1] = step =>
                        generation_config.forced_decoder_ids[k][2] =
                            gcall.static_force_token_array[step + 1]

\* C28: the cursors of all decoder layers are equal whenever a generation call holds a
\* cache, and a deterministic decoder pass that was given the cache (and position ids)
\* returns a cache in which every layer's cursor is the cursor before the pass plus the
\* number of positions fed, for a prefill and for a single step alike
C28_LayerCursorsAgree ==
    dec.state \in {"prepared", "running"} =>
        /\ \A k \in Layers : dec.past_key_values[k].cache_index = dec.past_key_values[1].cache_index
        /\ (dec.pass.kind \in {"loop", "decode"} /\ ~dec.pass.train
              /\ dec.pass.with_past /\ dec.pass.with_position_ids) =>
              /\ ~dec.pass.error
              /\ \A k \in Layers :
                    dec.pass.past_key_values[k].cache_index = dec.pass.cur + dec.pass.n
\* a prefill of two positions, then a single step, both on draws below the layerdrop rate
C28_Witness ==
    /\ dec.state = "running" /\ dec.prompt = 2
    /\ dec.pass.kind = "loop" /\ dec.pass.n = 1 /\ dec.pass.cur = 2 /\ dec.pass.low_draw
    /\ \A k \in Layers : dec.pass.past_key_values[k].cache_index = 3

\* C29: a call of decode with a cache and without position ids fails before any decoder
\* layer runs and returns nothing, the caller's cache staying as it was; a deterministic
\* call with a cache and position ids returns the cache advanced by the positions fed; a
\* deterministic call without a cache succeeds and returns no cache
C29_DecodeCacheContract ==
    (dec.state \in {"prepared", "running"} /\ dec.pass.kind = "decode") =>
        /\ \A k \in Layers : dec.past_key_values[k].cache_index = dec.pass.cur
        /\ (dec.pass.with_past /\ ~dec.pass.with_position_ids) =>
              dec.pass.error /\ dec.pass.executed = <<>> /\ dec.pass.past_key_values = <<>>
        /\ (dec.pass.with_past /\ dec.pass.with_position_ids /\ ~dec.pass.train) =>
              /\ ~dec.pass.error
              /\ DOMAIN dec.pass.past_key_values = Layers
              /\ \A k \in Layers :
                    dec.pass.past_key_values[k].cache_index = dec.pass.cur + dec.pass.n
        /\ (~dec.pass.with_past /\ ~dec.pass.train) =>
              ~dec.pass.error /\ dec.pass.past_key_values = <<>>
\* decode was refused on a cache that already holds positions
C29_Witness ==
    /\ dec.state = "running" /\ dec.pass.kind = "decode"
    /\ dec.pass.with_past /\ ~dec.pass.with_position_ids /\ dec.pass.error
    /\ dec.past_key_values[1].cache_index = 2

\* C30: a decoder layer called without encoder hidden states completes without an error
\* and returns a hidden state
C30_LayerCompletesWithoutEncoder ==
    (dec.state \in {"prepared", "running"} /\ dec.pass.kind = "layer" /\ ~dec.pass.with_encoder) =>
        ~dec.pass.error /\ dec.pass.hidden \in Vocab

====
